---- MODULE Spec2Model ----
(***************************************************************************)
(* A model of typen's Enforcer (src/typen/_enforcer.py) and of the wrapper *)
(* that EnforceTypeHints.decorate builds around it                         *)
(* (src/typen/_decorators.py).                                             *)
(*                                                                         *)
(* Python dicts are insertion ordered; they are modelled as sequences of   *)
(* <<key, value>> pairs with pairwise distinct keys.  Python's None, the   *)
(* UNSPECIFIED sentinel and inspect.Parameter.empty are the strings        *)
(* "None", "UNSPECIFIED" and "Empty".                                      *)
(***************************************************************************)
EXTENDS Integers, Sequences, FiniteSets, TLC

VARIABLES func, annotations, enforcer, construction, call, decorator, threads,
          translation, methods

vars ==
    <<func, annotations, enforcer, construction, call, decorator, threads,
      translation, methods>>

(***************************************************************************)
(* Bounds                                                                  *)
(***************************************************************************)
\* The number of values (positional plus keyword) one call supplies.
MaxSupplied == 2

\* The number of threads that call one lazily decorated function.
MaxThreads == 2

(***************************************************************************)
(* Ordered dictionaries                                                    *)
(***************************************************************************)
Keys(d) == [i \in 1..Len(d) |-> d[i][1]]

Has(d, k) == \E i \in 1..Len(d) : d[i][1] = k

Get(d, k) == d[CHOOSE i \in 1..Len(d) : d[i][1] = k][2]

Pop(d, k) == SelectSeq(d, LAMBDA e : e[1] # k)

Set(d, k, v) ==
    IF Has(d, k)
    THEN [i \in 1..Len(d) |-> IF d[i][1] = k THEN <<k, v>> ELSE d[i]]
    ELSE Append(d, <<k, v>>)

RECURSIVE Update(_, _)
Update(d, other) ==
    IF other = <<>> THEN d
    ELSE Update(Set(d, other[1][1], other[1][2]), Tail(other))

\* seq[k:] and seq[:k] for k >= -1, as Python slices them.
SliceFrom(s, k) ==
    LET start == IF k < 0 THEN (IF Len(s) + k < 0 THEN 0 ELSE Len(s) + k)
                 ELSE (IF k > Len(s) THEN Len(s) ELSE k)
    IN  SubSeq(s, start + 1, Len(s))

SliceTo(s, k) ==
    LET stop == IF k < 0 THEN (IF Len(s) + k < 0 THEN 0 ELSE Len(s) + k)
                ELSE (IF k > Len(s) THEN Len(s) ELSE k)
    IN  SubSeq(s, 1, stop)

(***************************************************************************)
(* Declared types and runtime values                                       *)
(***************************************************************************)
UNSPECIFIED == "UNSPECIFIED"

None == "None"

Empty == "Empty"

Types == {"int", "float", "Array_int64"}

Values == {"1", "0.5", "ndarray_int64", "ndarray_float64"}

\* Values that only the callables with typing annotations are called with:
\* [1, 2], [1.1, 0.1] and (1, 2)
TypingValues == {"1", "list_int", "list_float", "tuple_int"}

\* The list values: [1, 1], [0.5, 0.5], [], ["a", "a"], [1, "a"] and the
\* lists of lists built from them, as the lists of test_typing.py
ListValues ==
    {"list_int", "list_float", "list_empty", "list_str", "list_mixed",
     "list_list_int", "list_list_str", "list_list_mixed",
     "list_list_list_int", "list_list_list_mixed"}

\* Values the translated validators are applied to
TranslateValues == ListValues \cup {"1", "0.5", "a", "tuple_int"}

PyType(v) ==
    CASE v = "1" -> "int"
      [] v = "0.5" -> "float"
      [] v = "a" -> "str"
      [] v \in ListValues -> "list"
      [] v = "tuple_int" -> "tuple"
      [] OTHER -> "ndarray"

\* The items of a list or tuple value
Items(v) ==
    CASE v = "list_float" -> <<"0.5", "0.5">>
      [] v = "list_empty" -> <<>>
      [] v = "list_str" -> <<"a", "a">>
      [] v = "list_mixed" -> <<"1", "a">>
      [] v = "list_list_int" -> <<"list_int", "list_int">>
      [] v = "list_list_str" -> <<"list_str", "list_str">>
      [] v = "list_list_mixed" -> <<"list_mixed", "list_str">>
      [] v = "list_list_list_int" -> <<"list_list_int", "list_list_int">>
      [] v = "list_list_list_mixed" -> <<"list_list_int", "list_list_mixed">>
      [] OTHER -> <<"1", "1">>

\* The Array traits of test_validate_array: dtype and shape as declared;
\* "Array_22" declares no dtype, "2N" is the shape (2, None)
ArrayTypes ==
    {"Array_int64", "Array_float64", "Array_22", "Array_float64_22",
     "Array_float64_2N"}

\* The arrays of test_validate_array, 2 x 2 unless the name says otherwise,
\* and a complex one
ArrayValues ==
    {"ndarray_int64", "ndarray_float64", "ndarray_float64_32",
     "ndarray_float64_23", "ndarray_complex128"}

IsArray(t) == t \in ArrayTypes

ArrayDtype(t) ==
    CASE t = "Array_int64" -> "int64"
      [] t = "Array_22" -> None
      [] OTHER -> "float64"

\* arg_type.shape: <<>> when no shape is declared, 0 for a None dimension
ArrayShape(t) ==
    CASE t \in {"Array_22", "Array_float64_22"} -> <<2, 2>>
      [] t = "Array_float64_2N" -> <<2, 0>>
      [] OTHER -> <<>>

IsNdarray(v) == PyType(v) = "ndarray"

NdarrayDtype(v) ==
    CASE v = "ndarray_int64" -> "int64"
      [] v = "ndarray_complex128" -> "complex128"
      [] OTHER -> "float64"

NdarrayShape(v) ==
    CASE v = "ndarray_float64_32" -> <<3, 2>>
      [] v = "ndarray_float64_23" -> <<2, 3>>
      [] OTHER -> <<2, 2>>

\* value.astype(dtype, casting="safe") succeeds; numpy reads a dtype of None
\* as its default, float64
SafeCast(from, to) ==
    LET target == IF to = None THEN "float64" ELSE to
    IN  from = target \/ (from = "int64" /\ target \in {"float64", "complex128"})
                      \/ (from = "float64" /\ target = "complex128")

\* The Array validator's shape check
ShapeMatches(shape, extent) ==
    \/ shape = <<>>
    \/ /\ Len(shape) = Len(extent)
       /\ \A i \in 1..Len(shape) : shape[i] = 0 \/ shape[i] = extent[i]

\* The interpreters setup.py admits (python_requires >= 3.6), by the typing
\* module they ship: up to 3.6 a subscripted form has the typing class as its
\* __origin__ and a bare one has None; from 3.7 on __origin__ is the builtin
\* or abstract class the form stands for
Pythons == {"3.6", "3.7"}

\* The annotations that have __origin__: typing.List, typing.List[int],
\* typing.List[typing.List[int]], typing.Tuple[int, float],
\* typing.Dict[int, int], typing.Optional[int] and so on
GenericForms ==
    {"List", "List_int", "List_float", "List_str", "List_List",
     "List_List_int", "List_List_str", "List_List_List_int",
     "Tuple", "Tuple_int_float", "Tuple_List_int_int",
     "Dict_int_int", "List_Dict_int_int", "Tuple_int_Dict_int_int",
     "List_List_Dict_int_int", "Optional_int", "List_Optional_int"}

\* The annotations handed to the translator
Annotations == {"int", "float", "str"} \cup GenericForms

HasOrigin(t) == t \in GenericForms

typing_List == "List"

typing_Tuple == "Tuple"

\* arg_type.__args__; the empty tuple stands for None
TypeArgs(t) ==
    CASE t = "List_int" -> <<"int">>
      [] t = "List_float" -> <<"float">>
      [] t = "List_str" -> <<"str">>
      [] t = "List_List" -> <<"List">>
      [] t = "List_List_int" -> <<"List_int">>
      [] t = "List_List_str" -> <<"List_str">>
      [] t = "List_List_List_int" -> <<"List_List_int">>
      [] t = "Tuple_int_float" -> <<"int", "float">>
      [] t = "Tuple_List_int_int" -> <<"List_int", "int">>
      [] t = "Dict_int_int" -> <<"int", "int">>
      [] t = "List_Dict_int_int" -> <<"Dict_int_int">>
      [] t = "Tuple_int_Dict_int_int" -> <<"int", "Dict_int_int">>
      [] t = "List_List_Dict_int_int" -> <<"List_Dict_int_int">>
      [] t = "Optional_int" -> <<"int", "NoneType">>
      [] t = "List_Optional_int" -> <<"Optional_int">>
      [] OTHER -> <<>>

\* The typing class a form is made from
Generic(t) ==
    CASE t \in {"List", "List_int", "List_float", "List_str", "List_List",
                "List_List_int", "List_List_str", "List_List_List_int",
                "List_Dict_int_int", "List_List_Dict_int_int",
                "List_Optional_int"} -> "List"
      [] t \in {"Tuple", "Tuple_int_float", "Tuple_List_int_int",
                "Tuple_int_Dict_int_int"} -> "Tuple"
      [] t = "Dict_int_int" -> "Dict"
      [] OTHER -> "Union"

\* The builtin class behind a typing class
Builtin(g) ==
    CASE g = "List" -> "list"
      [] g = "Tuple" -> "tuple"
      [] g = "Dict" -> "dict"
      [] OTHER -> "Union"

\* origin = arg_type.__origin__ or arg_type
Origin(python, t) ==
    IF python = "3.6"
    THEN IF t \in {"List", "Tuple"} THEN t ELSE Generic(t)
    ELSE Builtin(Generic(t))

\* ValidatedList(item_trait) and traits_api.List()
ValidatedList(item) == "ValidatedList_" \o item

TraitsList == "traits_List"

\* traits_api.Tuple(*contained) and traits_api.Tuple()
RECURSIVE TraitsTupleOf(_)
TraitsTupleOf(contained) ==
    IF contained = <<>> THEN "traits_Tuple"
    ELSE TraitsTupleOf(SubSeq(contained, 1, Len(contained) - 1))
             \o "_" \o contained[Len(contained)]

TraitsTuple == TraitsTupleOf(<<>>)

TypenError == "TypenError"

\* A TypenError raised by a recursive call leaves the caller as well
RECURSIVE typing_to_trait(_, _)
typing_to_trait(python, arg_type) ==
    IF ~HasOrigin(arg_type) THEN arg_type
    ELSE LET origin == Origin(python, arg_type)
             args == TypeArgs(arg_type)
         IN  IF origin = typing_List
             THEN IF args # <<>>
                  THEN LET contained == typing_to_trait(python, args[1])
                       IN  IF contained = TypenError THEN TypenError
                           ELSE ValidatedList(contained)
                  ELSE TraitsList
             ELSE IF origin = typing_Tuple
             THEN IF args # <<>>
                  THEN LET contained ==
                               [i \in 1..Len(args) |->
                                   typing_to_trait(python, args[i])]
                       IN  IF \E i \in 1..Len(args) : contained[i] = TypenError
                           THEN TypenError
                           ELSE TraitsTupleOf(contained)
                  ELSE TraitsTuple
             ELSE TypenError

\* The traits an item_trait can be
ItemTraits ==
    Types \cup {typing_to_trait("3.6", t) : t \in Annotations \cup {"NoneType"}}

IsValidatedList(t) == \E item \in ItemTraits : t = ValidatedList(item)

\* self.item_trait of a ValidatedList
ItemTrait(t) == CHOOSE item \in ItemTraits : t = ValidatedList(item)

\* validator.validate(None, None, value) returns without TraitError.  A
\* typing annotation handed to add_trait as it is becomes an instance trait
\* of the annotation's own class, which no list, tuple or number is.
RECURSIVE Validate(_, _)
Validate(t, v) ==
    CASE t = "int" -> PyType(v) = "int"
      [] t = "float" -> PyType(v) \in {"int", "float"}
      [] t = "str" -> PyType(v) = "str"
      [] HasOrigin(t) -> FALSE
      [] t = TraitsList -> PyType(v) = "list"
      [] IsValidatedList(t) ->
            /\ PyType(v) = "list"
            /\ \A i \in 1..Len(Items(v)) : Validate(ItemTrait(t), Items(v)[i])
      [] IsArray(t) ->
            IsNdarray(v) /\ ShapeMatches(ArrayShape(t), NdarrayShape(v))
      [] OTHER -> FALSE

(***************************************************************************)
(* The callables under test                                                *)
(***************************************************************************)
POS == "POSITIONAL_OR_KEYWORD"

VAR_POSITIONAL == "VAR_POSITIONAL"

VAR_KEYWORD == "VAR_KEYWORD"

P(name, kind, ann, default) ==
    [name |-> name, kind |-> kind, ann |-> ann, default |-> default]

F(name, params, ret) == [name |-> name, params |-> params, ret |-> ret]

NoAnn == "NoAnn"

Functions == {
    F("example_function",
      <<P("a", POS, "int", Empty), P("b", POS, "int", Empty)>>, "int"),
    F("example_function",
      <<P("a", POS, "float", Empty), P("b", POS, "float", Empty)>>, "float"),
    F("example_function",
      <<P("a", POS, "int", "0.5"), P("b", POS, "int", "1")>>, "int"),
    F("example_function",
      <<P("a", POS, NoAnn, Empty), P("b", POS, "int", Empty)>>, NoAnn),
    F("example_function",
      <<P("a", POS, "int", Empty), P("b", POS, "Array_int64", Empty)>>,
      "Array_int64"),
    F("example_function",
      <<P("a", POS, "int", Empty), P("args", VAR_POSITIONAL, "float", Empty)>>,
      NoAnn),
    F("example_function",
      <<P("a", POS, NoAnn, Empty), P("args", VAR_POSITIONAL, NoAnn, Empty)>>,
      "float"),
    F("example_function",
      <<P("a", POS, "int", "1"), P("kwargs", VAR_KEYWORD, "float", Empty)>>,
      "float"),
    F("example_function",
      <<P("a", POS, "int", "0.5"), P("kwargs", VAR_KEYWORD, NoAnn, Empty)>>,
      NoAnn),
    F("example_method",
      <<P("self", POS, NoAnn, Empty),
        P("foos", VAR_POSITIONAL, "int", Empty),
        P("bars", VAR_KEYWORD, "float", Empty)>>, "int"),
    F("ex_method",
      <<P("self", POS, NoAnn, Empty), P("c", POS, "int", Empty)>>, "int"),
    F("ex_method",
      <<P("this", POS, "float", Empty), P("self", POS, "int", Empty)>>, "int"),
    F("__init__",
      <<P("self", POS, NoAnn, Empty), P("a", POS, "int", Empty)>>, NoAnn),
    F("example_function",
      <<P("a", POS, NoAnn, Empty), P("b", POS, NoAnn, "1")>>, NoAnn),
    F("example_method",
      <<P("self", POS, NoAnn, Empty),
        P("args", VAR_POSITIONAL, NoAnn, Empty),
        P("kwargs", VAR_KEYWORD, NoAnn, Empty)>>, NoAnn)
}

\* The functions of the typing tests
TypingFunctions == {
    F("test_function", <<P("a", POS, "List", Empty)>>, NoAnn),
    F("test_function", <<P("a", POS, "List_int", Empty)>>, NoAnn),
    F("test_function", <<P("a", POS, "int", Empty)>>, "List_int")
}

\* One function per Array trait of test_validate_array, the trait on its
\* parameter and on its return value
ArrayFunctions ==
    {F("example_function", <<P("a", POS, t, Empty)>>, t) : t \in ArrayTypes}

\* Functions that have a parameter named "self" next to one whose name is
\* fifteen lowercase letters, as the names random_attribute_name() returns
AliasFunctions == {
    F("example_function",
      <<P("qzjxkvwpmhgtbyd", POS, "float", Empty), P("self", POS, "int", Empty)>>,
      NoAnn),
    F("example_function",
      <<P("self", POS, "int", Empty), P("lrncfuoeaisdwpk", POS, NoAnn, "1")>>,
      "int")
}

\* func.__annotations__ as the def statement builds it
DeclaredAnnotations(f) ==
    LET annotated == SelectSeq(f.params, LAMBDA p : p.ann # NoAnn)
        ps == [i \in 1..Len(annotated) |-> <<annotated[i].name, annotated[i].ann>>]
    IN  IF f.ret = NoAnn THEN ps ELSE Append(ps, <<"return", f.ret>>)

\* dict(inspect.signature(func).parameters)
Parameters(f) ==
    [i \in 1..Len(f.params) |->
        <<f.params[i].name, [kind |-> f.params[i].kind, default |-> f.params[i].default]>>]

\* random_attribute_name() draws one of these
Aliases == {"qzjxkvwpmhgtbyd", "lrncfuoeaisdwpk"}

(***************************************************************************)
(* Enforcer.__init__                                                       *)
(***************************************************************************)
UnspecifiedParameterTypeError == "UnspecifiedParameterTypeError"

UnspecifiedReturnTypeError == "UnspecifiedReturnTypeError"

ParameterTypeError == "ParameterTypeError"

ReturnTypeError == "ReturnTypeError"

IndexError == "IndexError"

\* The fields __init__ sets before its first loop; -1 stands for a position
\* or count that is None.
InitialFields(params, spec) ==
    [raised |-> "", names |-> <<>>, params |-> params, spec |-> spec,
     packed_args_name |-> None, packed_args_pos |-> -1,
     packed_args_spec |-> UNSPECIFIED,
     packed_kwargs_name |-> None, num_normal_keywords |-> -1,
     packed_kwargs_spec |-> UNSPECIFIED,
     ignored_self_name |-> None, _self |-> None]

\* The loop over enumerate(list(params.items())): items is the snapshot,
\* i the index of the item looked at, c the fields so far.
RECURSIVE PackLoop(_, _, _, _)
PackLoop(items, i, require_args, c) ==
    IF i >= Len(items) \/ c.raised # "" THEN c
    ELSE
      LET name == items[i + 1][1]
          kind == items[i + 1][2].kind
      IN
      IF kind = VAR_POSITIONAL THEN
          LET c1 == [c EXCEPT !.packed_args_name = name, !.packed_args_pos = i]
          IN  IF Has(c.spec, name)
              THEN PackLoop(items, i + 1, require_args,
                     [c1 EXCEPT !.packed_args_spec = Get(c.spec, name),
                                !.spec = Pop(c.spec, name),
                                !.params = Pop(c.params, name)])
              ELSE IF require_args
              THEN [c1 EXCEPT !.raised = UnspecifiedParameterTypeError,
                              !.names = <<name>>]
              ELSE PackLoop(items, i + 1, require_args,
                     [c1 EXCEPT !.params = Pop(c.params, name)])
      ELSE IF kind = VAR_KEYWORD THEN
          LET c1 == [c EXCEPT !.packed_kwargs_name = name]
          IN  IF Has(c.spec, name)
              THEN PackLoop(items, i + 1, require_args,
                     [c1 EXCEPT !.packed_kwargs_spec = Get(c.spec, name),
                                !.spec = Pop(c.spec, name),
                                !.params = Pop(c.params, name),
                                !.num_normal_keywords = Len(Pop(c.params, name))])
              ELSE IF require_args
              THEN [c1 EXCEPT !.raised = UnspecifiedParameterTypeError,
                              !.names = <<name>>]
              ELSE PackLoop(items, i + 1, require_args,
                     [c1 EXCEPT !.params = Pop(c.params, name),
                                !.num_normal_keywords = Len(Pop(c.params, name))])
      ELSE PackLoop(items, i + 1, require_args, c)

\* "If this is a method of some kind, ignore the first argument"
IgnoreSelf(c, ignore_self) ==
    IF c.raised # "" \/ ~ignore_self THEN c
    ELSE IF c.params = <<>> THEN [c EXCEPT !.raised = IndexError]
    ELSE LET name == c.params[1][1]
         IN  [c EXCEPT !.ignored_self_name = name,
                       !.params = Pop(c.params, name),
                       !.spec = Pop(c.spec, name)]

\* "Handle the edge case that we have an actual arg named self"
AliasSelf(c, alias) ==
    IF c.raised # "" \/ ~Has(c.params, "self") THEN c
    ELSE [c EXCEPT !._self = alias,
                   !.params = Set(Pop(c.params, "self"), alias, Get(c.params, "self")),
                   !.spec = IF Has(c.spec, "self")
                            THEN Set(Pop(c.spec, "self"), alias, Get(c.spec, "self"))
                            ELSE c.spec]

\* The keys of params that have no entry in spec, in params' order
Unspecified(c) == SelectSeq(Keys(c.params), LAMBDA k : ~Has(c.spec, k))

RequireArgs(c, require_args) ==
    IF c.raised # "" THEN c
    ELSE IF Unspecified(c) # <<>> /\ require_args
    THEN [c EXCEPT !.raised = UnspecifiedParameterTypeError,
                   !.names = Unspecified(c)]
    ELSE [c EXCEPT !.spec =
            Update(c.spec, [i \in 1..Len(Unspecified(c)) |->
                               <<Unspecified(c)[i], UNSPECIFIED>>])]

RequireReturn(c, require_return) ==
    IF c.raised # "" THEN c
    ELSE IF Has(c.spec, "return")
    THEN [returns |-> Get(c.spec, "return")] @@ [c EXCEPT !.spec = Pop(c.spec, "return")]
    ELSE IF require_return
    THEN [c EXCEPT !.raised = UnspecifiedReturnTypeError]
    ELSE [returns |-> UNSPECIFIED] @@ c

NoEnforcer == [built |-> FALSE]

\* The object __init__ leaves behind when it does not raise
Fields(c) ==
    [built |-> TRUE,
     args |-> [i \in 1..Len(c.params) |->
                 [name |-> c.params[i][1], type |-> Get(c.spec, c.params[i][1])]],
     default_kwargs |->
         LET d == SelectSeq(c.params, LAMBDA e : e[2].default # Empty)
         IN  [i \in 1..Len(d) |-> <<d[i][1], d[i][2].default>>],
     packed_args_name |-> c.packed_args_name,
     packed_args_pos |-> c.packed_args_pos,
     packed_args_spec |-> c.packed_args_spec,
     packed_kwargs_name |-> c.packed_kwargs_name,
     num_normal_keywords |-> c.num_normal_keywords,
     packed_kwargs_spec |-> c.packed_kwargs_spec,
     ignored_self_name |-> c.ignored_self_name,
     _self |-> c._self,
     returns |-> c.returns]

\* __init__ up to the point where it has raised or has every field but the
\* validators; alias is the name random_attribute_name() would return
Analyse(f, spec, require_args, require_return, ignore_self, alias) ==
    LET c0 == InitialFields(Parameters(f), spec)
        c1 == PackLoop(Parameters(f), 0, require_args, c0)
        c2 == IgnoreSelf(c1, ignore_self)
        c3 == AliasSelf(c2, alias)
        c4 == RequireArgs(c3, require_args)
    IN  RequireReturn(c4, require_return)

\* A construction that validates the recorded defaults before it returns
EagerDefaults(f, spec, require_args, require_return, ignore_self, alias) ==
    LET c == Analyse(f, spec, require_args, require_return, ignore_self, alias)
        bad == c.raised = "" /\
                 \E i \in 1..Len(c.params) :
                    /\ c.params[i][2].default # Empty
                    /\ Get(c.spec, c.params[i][1]) # UNSPECIFIED
                    /\ ~Validate(Get(c.spec, c.params[i][1]), c.params[i][2].default)
    IN  [raised |-> IF bad THEN ParameterTypeError ELSE c.raised,
         names |-> c.names,
         spec |-> c.spec,
         enforcer |-> IF c.raised = "" /\ ~bad THEN Fields(c) ELSE NoEnforcer]

\* Enforcer(func, require_args, require_return, ignore_self): the exception
\* raised (or ""), the names it lists, func.__annotations__ afterwards and the
\* object built.
EnforcerInit(f, spec, require_args, require_return, ignore_self, alias) ==
    LET c == Analyse(f, spec, require_args, require_return, ignore_self, alias)
    IN  [raised |-> c.raised,
         names |-> c.names,
         spec |-> c.spec,
         enforcer |-> IF c.raised = "" THEN Fields(c) ELSE NoEnforcer]

(***************************************************************************)
(* Enforcer.verify_args                                                    *)
(***************************************************************************)
Passed == [raised |-> "", name |-> "", value |-> "", cast |-> FALSE]

Raise(kind, name, value, cast) ==
    [raised |-> kind, name |-> name, value |-> value, cast |-> cast]

\* passed_args and passed_kwargs once the ignored self is taken out
StripSelf(e, passed_args, passed_kwargs) ==
    IF e.ignored_self_name # None
    THEN IF Has(passed_kwargs, e.ignored_self_name)
         THEN [args |-> passed_args,
               kwargs |-> Pop(passed_kwargs, e.ignored_self_name)]
         ELSE [args |-> SliceFrom(passed_args, 1), kwargs |-> passed_kwargs]
    ELSE [args |-> passed_args, kwargs |-> passed_kwargs]

\* packed_args, packed_kwargs and what is left of passed_args, passed_kwargs
SplitPacked(e, s) ==
    [packed_args |-> IF e.packed_args_name # None
                     THEN SliceFrom(s.args, e.packed_args_pos) ELSE <<>>,
     args |-> IF e.packed_args_name # None
              THEN SliceTo(s.args, e.packed_args_pos) ELSE s.args,
     packed_kwargs |-> IF e.packed_kwargs_name # None
                       THEN SliceFrom(s.kwargs, e.num_normal_keywords - 1)
                       ELSE <<>>,
     kwargs |-> IF e.packed_kwargs_name # None
                THEN SliceTo(s.kwargs, e.num_normal_keywords - 1)
                ELSE s.kwargs]

\* traits after "for i, arg in enumerate(passed_args)"; the caller has
\* checked that self.args[i] exists for every i
RECURSIVE BindPositional(_, _, _, _)
BindPositional(e, args, i, traits) ==
    IF i > Len(args) THEN traits
    ELSE BindPositional(e, args, i + 1, Set(traits, e.args[i].name, args[i]))

\* traits after traits.update(**passed_kwargs)
BindKeywords(e, args, kwargs) ==
    Update(BindPositional(e, args, 1, <<>>), kwargs)

\* "Handle the corner case that self is the name of a normal parameter"
RenameSelf(e, traits) ==
    IF Has(traits, "self")
    THEN Set(Pop(traits, "self"), e._self, Get(traits, "self"))
    ELSE traits

RECURSIVE FillDefaults(_, _)
FillDefaults(defaults, traits) ==
    IF defaults = <<>> THEN traits
    ELSE FillDefaults(Tail(defaults),
            IF Has(traits, defaults[1][1]) THEN traits
            ELSE Set(traits, defaults[1][1], defaults[1][2]))

\* The mapping from parameter name to the value that gets validated
Traits(e, args, kwargs) ==
    FillDefaults(e.default_kwargs, RenameSelf(e, BindKeywords(e, args, kwargs)))

\* "Extra validation for numpy array dtypes": the first argument whose cast
\* raises, or 0
FirstBadCast(e, traits) ==
    LET bad == {i \in 1..Len(e.args) :
                   /\ Has(traits, e.args[i].name)
                   /\ IsArray(e.args[i].type)
                   /\ IsNdarray(Get(traits, e.args[i].name))
                   /\ ~SafeCast(NdarrayDtype(Get(traits, e.args[i].name)),
                                ArrayDtype(e.args[i].type))}
    IN  IF bad = {} THEN 0 ELSE CHOOSE i \in bad : \A j \in bad : i <= j

\* The first argument whose validator raises TraitError, or 0
FirstInvalid(e, traits) ==
    LET bad == {i \in 1..Len(e.args) :
                   /\ e.args[i].type # UNSPECIFIED
                   /\ Has(traits, e.args[i].name)
                   /\ ~Validate(e.args[i].type, Get(traits, e.args[i].name))}
    IN  IF bad = {} THEN 0 ELSE CHOOSE i \in bad : \A j \in bad : i <= j

\* The first entry of a packed sequence or mapping that its validator
\* rejects, or 0; values gives the values in iteration order
FirstInvalidPacked(type, values) ==
    LET bad == {i \in 1..Len(values) : ~Validate(type, values[i])}
    IN  IF type = UNSPECIFIED \/ bad = {} THEN 0
        ELSE CHOOSE i \in bad : \A j \in bad : i <= j

verify_args(e, passed_args, passed_kwargs) ==
    LET s == SplitPacked(e, StripSelf(e, passed_args, passed_kwargs))
    IN
    IF Len(s.args) > Len(e.args)
    THEN Raise(IndexError, "", "", FALSE)
    ELSE
      LET traits == Traits(e, s.args, s.kwargs)
          cast == FirstBadCast(e, traits)
          invalid == FirstInvalid(e, traits)
          pargs == FirstInvalidPacked(e.packed_args_spec, s.packed_args)
          pkwargs == FirstInvalidPacked(e.packed_kwargs_spec,
                        [i \in 1..Len(s.packed_kwargs) |-> s.packed_kwargs[i][2]])
      IN
      IF cast # 0
      THEN Raise(ParameterTypeError, e.args[cast].name,
                 Get(traits, e.args[cast].name), TRUE)
      ELSE IF invalid # 0
      THEN Raise(ParameterTypeError, e.args[invalid].name,
                 Get(traits, e.args[invalid].name), FALSE)
      ELSE IF pargs # 0
      THEN Raise(ParameterTypeError, e.packed_args_name, s.packed_args[pargs], FALSE)
      ELSE IF pkwargs # 0
      THEN Raise(ParameterTypeError, e.packed_kwargs_name,
                 s.packed_kwargs[pkwargs][2], FALSE)
      ELSE Passed

(***************************************************************************)
(* Enforcer.verify_result                                                  *)
(***************************************************************************)
\* A verify_result whose dtype failure path does not attach return_value
ResultCastErrorWithoutValue(e, value) ==
    IF e.returns = UNSPECIFIED THEN Passed
    ELSE IF /\ IsArray(e.returns) /\ IsNdarray(value)
            /\ ~SafeCast(NdarrayDtype(value), ArrayDtype(e.returns))
    THEN Raise(ReturnTypeError, "return", "", TRUE)
    ELSE IF ~Validate(e.returns, value)
    THEN Raise(ReturnTypeError, "return", value, FALSE)
    ELSE Passed

\* The value field of a ReturnTypeError is its return_value attribute
verify_result(e, value) ==
    IF e.returns = UNSPECIFIED THEN Passed
    ELSE IF /\ IsArray(e.returns) /\ IsNdarray(value)
            /\ ~SafeCast(NdarrayDtype(value), ArrayDtype(e.returns))
    THEN Raise(ReturnTypeError, "return", value, TRUE)
    ELSE IF ~Validate(e.returns, value)
    THEN Raise(ReturnTypeError, "return", value, FALSE)
    ELSE Passed

(***************************************************************************)
(* The state machine: one callable, the Enforcer most recently built for   *)
(* it, and the progress of one call to the wrapper built by decorate.      *)
(***************************************************************************)
NoConstruction ==
    [done |-> FALSE, require_args |-> FALSE, require_return |-> FALSE,
     ignore_self |-> FALSE, raised |-> "", names |-> <<>>, before |-> <<>>]

\* args, kwargs: what the caller passed to new_func; received: what
\* self.func was called with; result: what it returned; returned: what
\* new_func handed back to its caller
Idle ==
    [pc |-> "idle", args |-> <<>>, kwargs |-> <<>>, error |-> Passed,
     result |-> "", invocations |-> 0,
     received |-> [args |-> <<>>, kwargs |-> <<>>], returned |-> ""]

\* EnforceTypeHints.__init__: no enforcer, no decorated_func yet; builds
\* counts the Enforcer objects assigned to self.enforcer by lazy calls
NoDecorator ==
    [require_args |-> FALSE, require_return |-> FALSE,
     decorated_func |-> FALSE, builds |-> 0]

\* No annotation is being translated
NoTranslation ==
    [python |-> None, arg_type |-> None, value |-> None, pc |-> "idle",
     trait |-> None, accepted |-> FALSE]

\* One decorated method of a class: the annotations of its def, the Enforcer
\* of its EnforceTypeHints object and the call in progress
NoMethod == [annotations |-> <<>>, enforcer |-> NoEnforcer, call |-> Idle]

NoRequest == [made |-> FALSE, via |-> "", args |-> <<>>, kwargs |-> <<>>]

\* No class is being created
NoMethods ==
    [desc |-> None, created |-> FALSE, request |-> NoRequest,
     above |-> NoMethod, below |-> NoMethod]

Init ==
    /\ func \in Functions
    /\ annotations = DeclaredAnnotations(func)
    /\ enforcer = NoEnforcer
    /\ construction = NoConstruction
    /\ call = Idle
    /\ decorator = NoDecorator
    /\ threads = <<>>
    /\ translation = NoTranslation
    /\ methods = NoMethods

\* Enforcer(func, require_args, require_return, ignore_self), as decorate and
\* the tests call it; a construction that raises leaves no enforcer.
Construct(require_args, require_return, ignore_self, alias) ==
    LET r == EnforcerInit(func, annotations, require_args, require_return,
                          ignore_self, alias)
    IN  /\ call.pc = "idle"
        /\ annotations' = r.spec
        /\ enforcer' = r.enforcer
        /\ construction' =
             [done |-> TRUE, require_args |-> require_args,
              require_return |-> require_return, ignore_self |-> ignore_self,
              raised |-> r.raised, names |-> r.names, before |-> annotations]
        /\ call' = Idle
        /\ UNCHANGED <<methods, translation, func, decorator, threads>>

\* The keyword names a call may use: the callable's own parameter names and
\* one name it does not declare
KwNames(f) ==
    {f.params[i].name : i \in {j \in 1..Len(f.params) : f.params[j].kind = POS}}
        \cup {"x"}

KeywordInputs(f, n) ==
    {d \in UNION {[1..k -> KwNames(f) \X Values] : k \in 0..n} :
        \A i, j \in 1..Len(d) : i # j => d[i][1] # d[j][1]}

\* A verify_args that takes the self value out of the caller's own sequence
\* and mapping
StrippedInPlace(e, passed_args, passed_kwargs) ==
    StripSelf(e, passed_args, passed_kwargs)

\* The caller's sequence and mapping once verify_args is over: every
\* assignment to passed_args and passed_kwargs binds the local name to a new
\* slice or dict, traits is a new dict, and astype and validate return new
\* objects that are dropped
CallerObjects(e, passed_args, passed_kwargs) ==
    [args |-> passed_args, kwargs |-> passed_kwargs]

\* A verify_args that keeps the values it bound as the defaults of later
\* calls
CallCachingDefaults(args, kwargs) ==
    /\ call.pc = "idle"
    /\ enforcer.built
    /\ LET r == verify_args(enforcer, args, kwargs)
       IN  call' = [Idle EXCEPT
                      !.pc = IF r.raised = "" THEN "verified" ELSE "raised",
                      !.args = args, !.kwargs = kwargs, !.error = r]
    /\ enforcer' = [enforcer EXCEPT !.default_kwargs = Update(@, kwargs)]
    /\ UNCHANGED <<methods, translation, func, annotations, construction, decorator, threads>>

\* new_func(*args, **kwargs), first statement: self.enforcer.verify_args
Call(args, kwargs) ==
    /\ call.pc = "idle"
    /\ enforcer.built
    /\ LET r == verify_args(enforcer, args, kwargs)
       IN  call' = [Idle EXCEPT
                      !.pc = IF r.raised = "" THEN "verified" ELSE "raised",
                      !.args = args, !.kwargs = kwargs, !.error = r]
    /\ UNCHANGED <<methods, translation, func, annotations, enforcer, construction, decorator, threads>>

\* A wrapper that goes on to the callable although verify_args raised
InvokeUnverified(outcome) ==
    /\ call.pc \in {"verified", "raised"}
    /\ call.invocations = 0
    /\ call' = [call EXCEPT !.pc = "invoked", !.result = outcome,
                            !.invocations = @ + 1,
                            !.received = CallerObjects(enforcer, call.args,
                                                       call.kwargs)]
    /\ UNCHANGED <<methods, translation, func, annotations, enforcer, construction, decorator, threads>>

\* new_func, second statement: result = self.func(*args, **kwargs); the
\* callable returns some value or raises
Invoke(outcome) ==
    /\ call.pc = "verified"
    /\ LET got == CallerObjects(enforcer, call.args, call.kwargs)
       IN  call' = IF outcome = "raise"
                   THEN [call EXCEPT !.pc = "raised",
                                     !.error = Raise("Exception", "", "", FALSE),
                                     !.invocations = @ + 1,
                                     !.received = got]
                   ELSE [call EXCEPT !.pc = "invoked", !.result = outcome,
                                     !.invocations = @ + 1,
                                     !.received = got]
    /\ UNCHANGED <<methods, translation, func, annotations, enforcer, construction, decorator, threads>>

\* new_func, last statements: self.enforcer.verify_result(result); return
VerifyResult ==
    /\ call.pc = "invoked"
    /\ LET r == verify_result(enforcer, call.result)
       IN  call' = [call EXCEPT !.pc = IF r.raised = "" THEN "returned" ELSE "raised",
                                !.error = r,
                                !.returned = IF r.raised = "" THEN call.result ELSE ""]
    /\ UNCHANGED <<methods, translation, func, annotations, enforcer, construction, decorator, threads>>

\* new_func returns to its caller, or its exception reaches the caller
Return ==
    /\ call.pc \in {"returned", "raised"}
    /\ call' = Idle
    /\ UNCHANGED <<methods, translation, func, annotations, enforcer, construction, decorator, threads>>

Next ==
    \/ \E ra, rr, is \in BOOLEAN, alias \in Aliases : Construct(ra, rr, is, alias)
    \/ \E n \in 0..MaxSupplied :
          \E args \in [1..n -> Values],
             kwargs \in KeywordInputs(func, MaxSupplied - n) : Call(args, kwargs)
    \/ \E outcome \in Values \cup {"raise"} : Invoke(outcome)
    \/ VerifyResult
    \/ Return

Spec == Init /\ [][Next]_vars

(***************************************************************************)
(* A plain function behind one of the four decorators, called by several   *)
(* threads.  No __set_name__ runs for it, so the Enforcer is built by the  *)
(* first calls to EnforceTypeHints.__call__; a thread may be descheduled   *)
(* between any two of the steps below.                                     *)
(***************************************************************************)
Threads == 1..MaxThreads

AttributeError == "AttributeError"

\* The plain functions of the table, those without defaults, arrays or a
\* variadic keyword parameter
LazyFunctions ==
    {f \in Functions :
        \A i \in 1..Len(f.params) :
            /\ f.params[i].name # "self"
            /\ f.params[i].default = Empty
            /\ f.params[i].kind # VAR_KEYWORD
            /\ f.params[i].ann \in {NoAnn, "int", "float"}}

LazyValues == {"1", "0.5"}

\* __init__ from "If this is a method of some kind" to its end, on the
\* fields c that the packing loop left
AnalyseRest(c, require_args, require_return, ignore_self, alias) ==
    RequireReturn(
        RequireArgs(AliasSelf(IgnoreSelf(c, ignore_self), alias), require_args),
        require_return)

ThreadIdle ==
    [pc |-> "idle", args |-> <<>>, c |-> InitialFields(<<>>, <<>>),
     error |-> Passed, result |-> "", verified_by |-> NoEnforcer]

InitLazy ==
    /\ func \in LazyFunctions
    /\ annotations = DeclaredAnnotations(func)
    /\ enforcer = NoEnforcer
    /\ construction = NoConstruction
    /\ call = Idle
    /\ \E ra, rr \in BOOLEAN :
          decorator = [NoDecorator EXCEPT !.require_args = ra,
                                          !.require_return = rr]
    /\ threads = [t \in Threads |-> ThreadIdle]
    /\ translation = NoTranslation
    /\ methods = NoMethods

\* The exception kind leaves the thread's call
Fail(t, kind) ==
    threads' = [threads EXCEPT ![t].pc = "failed",
                               ![t].error = Raise(kind, "", "", FALSE)]

\* A thread calls the decorated function: EnforceTypeHints.__call__ starts
CallDecorated(t, args) ==
    /\ threads[t].pc = "idle"
    /\ threads' = [threads EXCEPT ![t].pc = "check", ![t].args = args]
    /\ UNCHANGED <<methods, translation, func, annotations, enforcer, construction, call, decorator>>

\* __call__: if self.enforcer is None
CheckEnforcer(t) ==
    /\ threads[t].pc = "check"
    /\ threads' = [threads EXCEPT
                     ![t].pc = IF enforcer.built THEN "dispatch" ELSE "decorate"]
    /\ UNCHANGED <<methods, translation, func, annotations, enforcer, construction, call, decorator>>

\* decorate -> Enforcer.__init__, up to the end of the packing loop; spec is
\* func.__annotations__ itself
InitPack(t) ==
    /\ threads[t].pc = "decorate"
    /\ LET c == PackLoop(Parameters(func), 0, decorator.require_args,
                         InitialFields(Parameters(func), annotations))
       IN  /\ annotations' = c.spec
           /\ IF c.raised # "" THEN Fail(t, c.raised)
              ELSE threads' = [threads EXCEPT ![t].pc = "init", ![t].c = c]
    /\ UNCHANGED <<methods, translation, func, enforcer, construction, call, decorator>>

\* The rest of Enforcer.__init__, on func.__annotations__ as it is by now,
\* and the assignment self.enforcer = Enforcer(...)
InitRest(t, alias) ==
    /\ threads[t].pc = "init"
    /\ LET c == AnalyseRest([threads[t].c EXCEPT !.spec = annotations],
                            decorator.require_args, decorator.require_return,
                            FALSE, alias)
       IN  /\ annotations' = c.spec
           /\ IF c.raised # ""
              THEN /\ Fail(t, c.raised)
                   /\ UNCHANGED <<enforcer, decorator>>
              ELSE /\ enforcer' = Fields(c)
                   /\ decorator' = [decorator EXCEPT !.builds = @ + 1]
                   /\ threads' = [threads EXCEPT ![t].pc = "set_func"]
    /\ UNCHANGED <<methods, translation, func, construction, call>>

\* decorate: self.decorated_func = new_func
SetDecoratedFunc(t) ==
    /\ threads[t].pc = "set_func"
    /\ decorator' = [decorator EXCEPT !.decorated_func = TRUE]
    /\ threads' = [threads EXCEPT ![t].pc = "dispatch"]
    /\ UNCHANGED <<methods, translation, func, annotations, enforcer, construction, call>>

\* __call__: return self.decorated_func(*args, **kwargs)
Dispatch(t) ==
    /\ threads[t].pc = "dispatch"
    /\ IF decorator.decorated_func
       THEN threads' = [threads EXCEPT ![t].pc = "verify_args"]
       ELSE Fail(t, AttributeError)
    /\ UNCHANGED <<methods, translation, func, annotations, enforcer, construction, call, decorator>>

\* new_func: self.enforcer.verify_args(args, kwargs), on the enforcer the
\* decorator holds at this moment
ThreadVerifyArgs(t) ==
    /\ threads[t].pc = "verify_args"
    /\ LET r == verify_args(enforcer, threads[t].args, <<>>)
       IN  threads' = [threads EXCEPT
                         ![t].pc = IF r.raised = "" THEN "invoke" ELSE "failed",
                         ![t].error = r,
                         ![t].verified_by = enforcer]
    /\ UNCHANGED <<methods, translation, func, annotations, enforcer, construction, call, decorator>>

\* new_func: result = self.func(*args, **kwargs)
ThreadInvoke(t, outcome) ==
    /\ threads[t].pc = "invoke"
    /\ threads' = [threads EXCEPT ![t].pc = "verify_result",
                                  ![t].result = outcome]
    /\ UNCHANGED <<methods, translation, func, annotations, enforcer, construction, call, decorator>>

\* new_func: self.enforcer.verify_result(result); return result
ThreadVerifyResult(t) ==
    /\ threads[t].pc = "verify_result"
    /\ LET r == verify_result(enforcer, threads[t].result)
       IN  threads' = [threads EXCEPT
                         ![t].pc = IF r.raised = "" THEN "done" ELSE "failed",
                         ![t].error = r]
    /\ UNCHANGED <<methods, translation, func, annotations, enforcer, construction, call, decorator>>

NextLazy ==
    \E t \in Threads :
        \/ \E args \in [1..Len(func.params) -> LazyValues] : CallDecorated(t, args)
        \/ CheckEnforcer(t)
        \/ InitPack(t)
        \/ \E alias \in Aliases : InitRest(t, alias)
        \/ SetDecoratedFunc(t)
        \/ Dispatch(t)
        \/ ThreadVerifyArgs(t)
        \/ \E outcome \in LazyValues : ThreadInvoke(t, outcome)
        \/ ThreadVerifyResult(t)

SpecLazy == InitLazy /\ [][NextLazy]_vars

(***************************************************************************)
(* The Enforcer on callables annotated with typing generics                *)
(***************************************************************************)
InitTyping ==
    /\ func \in TypingFunctions
    /\ annotations = DeclaredAnnotations(func)
    /\ enforcer = NoEnforcer
    /\ construction = NoConstruction
    /\ call = Idle
    /\ decorator = NoDecorator
    /\ threads = <<>>
    /\ translation = NoTranslation
    /\ methods = NoMethods

NextTyping ==
    \/ \E ra, rr, is \in BOOLEAN, alias \in Aliases : Construct(ra, rr, is, alias)
    \/ \E n \in 0..MaxSupplied :
          \E args \in [1..n -> TypingValues] : Call(args, <<>>)
    \/ \E outcome \in TypingValues \cup {"raise"} : Invoke(outcome)
    \/ VerifyResult
    \/ Return

SpecTyping == InitTyping /\ [][NextTyping]_vars

(***************************************************************************)
(* A plain function behind one of the three strict decorators, called      *)
(* again and again by one caller.  No __set_name__ runs for it: every call *)
(* enters EnforceTypeHints.__call__, which decorates as long as            *)
(* self.enforcer is None, and a construction that raises leaves it None.   *)
(***************************************************************************)
StrictFunctions == {
    F("example_function",
      <<P("a", POS, "int", Empty), P("b", POS, "float", "0.5")>>, "int"),
    F("example_function",
      <<P("a", POS, NoAnn, Empty), P("b", POS, "float", "0.5")>>, "int"),
    F("example_function",
      <<P("a", POS, "int", Empty), P("b", POS, "float", Empty)>>, NoAnn),
    F("example_function",
      <<P("a", POS, "int", Empty), P("args", VAR_POSITIONAL, NoAnn, Empty)>>,
      "float"),
    F("example_function",
      <<P("a", POS, "int", Empty), P("kwargs", VAR_KEYWORD, NoAnn, Empty)>>,
      "float"),
    F("example_function",
      <<P("a", POS, NoAnn, Empty), P("args", VAR_POSITIONAL, "int", Empty)>>,
      "int"),
    F("example_function",
      <<P("a", POS, "int", Empty), P("kwargs", VAR_KEYWORD, "int", Empty)>>,
      NoAnn)
}

\* strict_type_hints, strict_parameter_hints, strict_return_hint
StrictDecorators ==
    {[NoDecorator EXCEPT !.require_args = ra, !.require_return = rr] :
        <<ra, rr>> \in {<<TRUE, TRUE>>, <<TRUE, FALSE>>, <<FALSE, TRUE>>}}

InitStrict ==
    /\ func \in StrictFunctions
    /\ annotations = DeclaredAnnotations(func)
    /\ enforcer = NoEnforcer
    /\ construction = NoConstruction
    /\ call = Idle
    /\ decorator \in StrictDecorators
    /\ threads = <<>>
    /\ translation = NoTranslation
    /\ methods = NoMethods

\* EnforceTypeHints.__call__ up to the return of verify_args: decorate()
\* when self.enforcer is None, then new_func's first statement.  An
\* exception of Enforcer(...) leaves decorate before self.enforcer is
\* assigned and reaches the caller.
CallStrict(args, kwargs, alias) ==
    /\ call.pc = "idle"
    /\ IF enforcer.built
       THEN /\ LET r == verify_args(enforcer, args, kwargs)
               IN  call' = [Idle EXCEPT
                              !.pc = IF r.raised = "" THEN "verified"
                                     ELSE "raised",
                              !.args = args, !.kwargs = kwargs, !.error = r]
            /\ UNCHANGED <<annotations, enforcer, construction, decorator>>
       ELSE LET b == EnforcerInit(func, annotations, decorator.require_args,
                                  decorator.require_return, FALSE, alias)
                r == IF b.raised # "" THEN Raise(b.raised, "", "", FALSE)
                     ELSE verify_args(b.enforcer, args, kwargs)
            IN  /\ annotations' = b.spec
                /\ enforcer' = b.enforcer
                /\ construction' =
                      [done |-> TRUE, require_args |-> decorator.require_args,
                       require_return |-> decorator.require_return,
                       ignore_self |-> FALSE, raised |-> b.raised,
                       names |-> b.names, before |-> annotations]
                /\ decorator' =
                      IF b.raised = ""
                      THEN [decorator EXCEPT !.decorated_func = TRUE,
                                             !.builds = 1]
                      ELSE decorator
                /\ call' = [Idle EXCEPT
                              !.pc = IF r.raised = "" THEN "verified"
                                     ELSE "raised",
                              !.args = args, !.kwargs = kwargs, !.error = r]
    /\ UNCHANGED <<func, threads, translation, methods>>

NextStrict ==
    \/ \E n \in 0..MaxSupplied :
          \E args \in [1..n -> LazyValues],
             kwargs \in KeywordInputs(func, MaxSupplied - n),
             alias \in Aliases : CallStrict(args, kwargs, alias)
    \/ \E outcome \in LazyValues \cup {"raise"} : Invoke(outcome)
    \/ VerifyResult
    \/ Return

SpecStrict == InitStrict /\ [][NextStrict]_vars

(***************************************************************************)
(* A class whose body defines the same class method or static method       *)
(* twice: once with enforce_type_hints above classmethod/staticmethod and  *)
(* once with it below.  The object above is a value of the class namespace *)
(* and gets __set_name__ when the class is created; the object below is    *)
(* wrapped by the descriptor, gets no __set_name__ and builds its Enforcer *)
(* in __call__.  The same call is then made on both.                       *)
(***************************************************************************)
classmethod == "classmethod"

staticmethod == "staticmethod"

ClassMethods == {
    F("ex_method",
      <<P("cls", POS, NoAnn, Empty), P("a", POS, "int", Empty),
        P("c", POS, "int", Empty)>>, "int"),
    F("ex_method",
      <<P("cls", POS, NoAnn, Empty), P("self", POS, NoAnn, Empty)>>, "int"),
    F("ex_method",
      <<P("cls", POS, NoAnn, Empty), P("a", POS, "int", Empty),
        P("args", VAR_POSITIONAL, "int", Empty)>>, "int"),
    F("ex_method",
      <<P("cls", POS, NoAnn, Empty), P("a", POS, "int", "1"),
        P("kwargs", VAR_KEYWORD, "int", Empty)>>, NoAnn)
}

StaticMethods == {
    F("ex_method",
      <<P("a", POS, "int", Empty), P("c", POS, "int", Empty)>>, "int"),
    F("ex_method", <<P("self", POS, NoAnn, Empty)>>, "int"),
    F("ex_method",
      <<P("a", POS, "int", Empty), P("args", VAR_POSITIONAL, "int", Empty)>>,
      "int"),
    F("ex_method",
      <<P("a", POS, "int", "1"), P("kwargs", VAR_KEYWORD, "int", Empty)>>,
      NoAnn)
}

InitDescriptor ==
    /\ \E desc \in {classmethod, staticmethod} :
          /\ func \in IF desc = classmethod THEN ClassMethods ELSE StaticMethods
          /\ methods =
                [NoMethods EXCEPT
                    !.desc = desc,
                    !.above.annotations = DeclaredAnnotations(func),
                    !.below.annotations = DeclaredAnnotations(func)]
    /\ annotations = <<>>
    /\ enforcer = NoEnforcer
    /\ construction = NoConstruction
    /\ call = Idle
    /\ decorator = NoDecorator
    /\ threads = <<>>
    /\ translation = NoTranslation

\* EnforceTypeHints.__set_name__ of the object above the descriptor, called
\* when the class is created; an exception ends the class statement
SetName(alias) ==
    /\ methods.desc # None
    /\ ~methods.created
    /\ methods.above.enforcer = NoEnforcer
    /\ LET ignore_self == methods.desc # staticmethod
           r == EnforcerInit(func, methods.above.annotations, FALSE, FALSE,
                             ignore_self, alias)
       IN  methods' = [methods EXCEPT !.created = (r.raised = ""),
                                      !.above.annotations = r.spec,
                                      !.above.enforcer = r.enforcer]
    /\ UNCHANGED <<func, annotations, enforcer, construction, call, decorator,
                   threads, translation>>

\* The caller picks one call, through the class or through an instance, to
\* make on both methods
MakeCall(via, args, kwargs) ==
    /\ methods.created
    /\ ~methods.request.made
    /\ methods' = [methods EXCEPT
                      !.request = [made |-> TRUE, via |-> via, args |-> args,
                                   kwargs |-> kwargs]]
    /\ UNCHANGED <<func, annotations, enforcer, construction, call, decorator,
                   threads, translation>>

\* classmethod.__get__ puts the class in front of the arguments, whether the
\* method is looked up on the class or on an instance; staticmethod.__get__
\* adds nothing
Receive(desc, via, args) ==
    IF desc = classmethod THEN <<"ExClass">> \o args ELSE args

\* The verify_args step of a call: new_func's first statement
Verified(m, e, raised, spec, passed_args, passed_kwargs) ==
    LET r == IF raised # "" THEN Raise(raised, "", "", FALSE)
             ELSE verify_args(e, passed_args, passed_kwargs)
    IN  [annotations |-> spec,
         enforcer |-> e,
         call |-> [Idle EXCEPT
                     !.pc = IF r.raised = "" THEN "verified" ELSE "raised",
                     !.args = passed_args, !.kwargs = passed_kwargs,
                     !.error = r]]

\* The call on the method decorated above: the class attribute is
\* desc(new_func), set by __set_name__
CallAbove ==
    /\ methods.request.made
    /\ methods.above.call.pc = "idle"
    /\ LET m == methods.above
       IN  methods' =
             [methods EXCEPT
                !.above = Verified(m, m.enforcer, "", m.annotations,
                                   Receive(methods.desc, methods.request.via,
                                           methods.request.args),
                                   methods.request.kwargs)]
    /\ UNCHANGED <<func, annotations, enforcer, construction, call, decorator,
                   threads, translation>>

\* The call on the method decorated below: the class attribute is
\* desc(EnforceTypeHints object), so the call enters __call__, which
\* decorates with ignore_self=False when there is no enforcer yet
CallBelow(alias) ==
    /\ methods.request.made
    /\ methods.below.call.pc = "idle"
    /\ LET m == methods.below
           r == IF m.enforcer.built
                THEN [raised |-> "", spec |-> m.annotations,
                      enforcer |-> m.enforcer]
                ELSE EnforcerInit(func, m.annotations, FALSE, FALSE, FALSE,
                                  alias)
       IN  methods' =
             [methods EXCEPT
                !.below = Verified(m, r.enforcer, r.raised, r.spec,
                                   Receive(methods.desc, methods.request.via,
                                           methods.request.args),
                                   methods.request.kwargs)]
    /\ UNCHANGED <<func, annotations, enforcer, construction, call, decorator,
                   threads, translation>>

\* new_func, second statement, on either method
MethodInvoke(p, outcome) ==
    /\ methods[p].call.pc = "verified"
    /\ methods' =
          [methods EXCEPT
             ![p].call =
                IF outcome = "raise"
                THEN [@ EXCEPT !.pc = "raised",
                               !.error = Raise("Exception", "", "", FALSE),
                               !.invocations = @ + 1]
                ELSE [@ EXCEPT !.pc = "invoked", !.result = outcome,
                               !.invocations = @ + 1]]
    /\ UNCHANGED <<func, annotations, enforcer, construction, call, decorator,
                   threads, translation>>

\* new_func, last statements, on either method
MethodVerifyResult(p) ==
    /\ methods[p].call.pc = "invoked"
    /\ LET r == verify_result(methods[p].enforcer, methods[p].call.result)
       IN  methods' =
             [methods EXCEPT
                ![p].call =
                   [@ EXCEPT !.pc = IF r.raised = "" THEN "returned" ELSE "raised",
                             !.error = r,
                             !.returned = IF r.raised = ""
                                          THEN methods[p].call.result
                                          ELSE ""]]
    /\ UNCHANGED <<func, annotations, enforcer, construction, call, decorator,
                   threads, translation>>

NextDescriptor ==
    \/ \E alias \in Aliases : SetName(alias)
    \/ \E via \in {"class", "instance"}, n \in 0..MaxSupplied :
          \E args \in [1..n -> LazyValues],
             kwargs \in KeywordInputs(func, MaxSupplied - n) :
                MakeCall(via, args, kwargs)
    \/ CallAbove
    \/ \E alias \in Aliases : CallBelow(alias)
    \/ \E p \in {"above", "below"}, outcome \in LazyValues \cup {"raise"} :
          MethodInvoke(p, outcome)
    \/ \E p \in {"above", "below"} : MethodVerifyResult(p)

SpecDescriptor == InitDescriptor /\ [][NextDescriptor]_vars

(***************************************************************************)
(* The translator applied to an annotation and the validator it returns    *)
(* applied to a value, as in TypingToTrait of test_typing.py               *)
(***************************************************************************)
NoFunction == F("", <<>>, NoAnn)

InitTranslate ==
    /\ func = NoFunction
    /\ annotations = <<>>
    /\ enforcer = NoEnforcer
    /\ construction = NoConstruction
    /\ call = Idle
    /\ decorator = NoDecorator
    /\ threads = <<>>
    /\ methods = NoMethods
    /\ \E python \in Pythons, typ \in Annotations, value \in TranslateValues :
          translation = [NoTranslation EXCEPT !.python = python,
                                              !.arg_type = typ,
                                              !.value = value,
                                              !.pc = "start"]

\* traits_typ = typing_to_trait(typ)
Translate ==
    /\ translation.pc = "start"
    /\ LET traits_typ == typing_to_trait(translation.python, translation.arg_type)
       IN  translation' =
               [translation EXCEPT
                   !.trait = traits_typ,
                   !.pc = IF traits_typ = TypenError THEN "raised"
                          ELSE "translated"]
    /\ UNCHANGED <<func, annotations, enforcer, construction, call, decorator,
                   threads, methods>>

\* A list validator whose item validators are list validators or plain types
RECURSIVE IsListValidator(_)
IsListValidator(t) ==
    \/ t = TraitsList
    \/ /\ IsValidatedList(t)
       /\ \/ ItemTrait(t) \in {"int", "float", "str"}
          \/ IsListValidator(ItemTrait(t))

\* traits_typ.validate(None, None, value)
ValidateTranslated ==
    /\ translation.pc = "translated"
    /\ IsListValidator(translation.trait)
    /\ translation' =
           [translation EXCEPT
               !.accepted = Validate(translation.trait, translation.value),
               !.pc = "validated"]
    /\ UNCHANGED <<func, annotations, enforcer, construction, call, decorator,
                   threads, methods>>

NextTranslate == Translate \/ ValidateTranslated

SpecTranslate == InitTranslate /\ [][NextTranslate]_vars

(***************************************************************************)
(* The Enforcer on callables whose parameter names can meet the alias      *)
(***************************************************************************)
InitAlias ==
    /\ func \in AliasFunctions
    /\ annotations = DeclaredAnnotations(func)
    /\ enforcer = NoEnforcer
    /\ construction = NoConstruction
    /\ call = Idle
    /\ decorator = NoDecorator
    /\ threads = <<>>
    /\ translation = NoTranslation
    /\ methods = NoMethods

SpecAlias == InitAlias /\ [][Next]_vars

(***************************************************************************)
(* The Enforcer on callables that declare two normal parameters before a   *)
(* variadic keyword parameter, so that a call can hold a keyword entry for *)
(* a normal parameter next to an extra one                                 *)
(***************************************************************************)
KeywordFunctions == {
    F("example_function",
      <<P("a", POS, "int", Empty), P("b", POS, "int", "1"),
        P("kwargs", VAR_KEYWORD, "float", Empty)>>, NoAnn),
    F("example_method",
      <<P("self", POS, NoAnn, Empty), P("a", POS, "int", Empty),
        P("kwargs", VAR_KEYWORD, "float", Empty)>>, NoAnn)
}

InitKeywords ==
    /\ func \in KeywordFunctions
    /\ annotations = DeclaredAnnotations(func)
    /\ enforcer = NoEnforcer
    /\ construction = NoConstruction
    /\ call = Idle
    /\ decorator = NoDecorator
    /\ threads = <<>>
    /\ translation = NoTranslation
    /\ methods = NoMethods

SpecKeywords == InitKeywords /\ [][Next]_vars

(***************************************************************************)
(* The Enforcer on callables annotated with Array traits                   *)
(***************************************************************************)
InitArray ==
    /\ func \in ArrayFunctions
    /\ annotations = DeclaredAnnotations(func)
    /\ enforcer = NoEnforcer
    /\ construction = NoConstruction
    /\ call = Idle
    /\ decorator = NoDecorator
    /\ threads = <<>>
    /\ translation = NoTranslation
    /\ methods = NoMethods

NextArray ==
    \/ \E ra, rr, is \in BOOLEAN, alias \in Aliases : Construct(ra, rr, is, alias)
    \/ \E n \in 0..MaxSupplied :
          \E args \in [1..n -> ArrayValues \cup {"1"}] : Call(args, <<>>)
    \/ \E outcome \in ArrayValues \cup {"1", "raise"} : Invoke(outcome)
    \/ VerifyResult
    \/ Return

SpecArray == InitArray /\ [][NextArray]_vars

(***************************************************************************)
(* What the claims speak of: the parameters as declared, and the values    *)
(* the language binds to them in a call                                    *)
(***************************************************************************)
NormalParams(f) == SelectSeq(f.params, LAMBDA p : p.kind = POS)

HasKind(f, kind) == \E i \in 1..Len(f.params) : f.params[i].kind = kind

\* The i-th normal parameter gets a value from the call itself
Supplied(f, args, kwargs, i) ==
    i <= Len(args) \/ Has(kwargs, NormalParams(f)[i].name)

\* The i-th normal parameter has a value: supplied, or its default
Bound(f, args, kwargs, i) ==
    Supplied(f, args, kwargs, i) \/ NormalParams(f)[i].default # Empty

BoundValue(f, args, kwargs, i) ==
    IF i <= Len(args) THEN args[i]
    ELSE IF Has(kwargs, NormalParams(f)[i].name)
    THEN Get(kwargs, NormalParams(f)[i].name)
    ELSE NormalParams(f)[i].default

NoDuplicates(f, args, kwargs) ==
    \A i \in 1..Len(NormalParams(f)) :
        ~(i <= Len(args) /\ Has(kwargs, NormalParams(f)[i].name))

\* The call is one the language can bind to the signature
Bindable(f, args, kwargs) ==
    /\ NoDuplicates(f, args, kwargs)
    /\ \A i \in 1..Len(NormalParams(f)) : Bound(f, args, kwargs, i)
    /\ HasKind(f, VAR_POSITIONAL) \/ Len(args) <= Len(NormalParams(f))
    /\ HasKind(f, VAR_KEYWORD) \/
         \A j \in 1..Len(kwargs) :
            \E i \in 1..Len(NormalParams(f)) : NormalParams(f)[i].name = kwargs[j][1]

\* The value does not satisfy the declared type
Violates(ann, v) ==
    /\ ann # NoAnn
    /\ \/ ~Validate(ann, v)
       \/ IsArray(ann) /\ IsNdarray(v) /\ ~SafeCast(NdarrayDtype(v), ArrayDtype(ann))

\* The i-th normal parameter is the self-like one of the enforcer in use
Exempt(i) == construction.ignore_self /\ i = 1

\* The enforcer in use was built from the annotations as declared
FromDeclared ==
    construction.done /\ construction.before = DeclaredAnnotations(func)

\* verify_args has run for the call in progress and the callable has not
ArgsVerified == call.pc \in {"verified", "raised"} /\ call.invocations = 0

\* verify_result has run for the call in progress
ResultVerified ==
    call.invocations = 1 /\ call.result # "" /\ call.pc \in {"returned", "raised"}

\* The non-exempt normal parameters bound to a violating value
Violating ==
    {i \in 1..Len(NormalParams(func)) :
        /\ ~Exempt(i)
        /\ Bound(func, call.args, call.kwargs, i)
        /\ Violates(NormalParams(func)[i].ann,
                    BoundValue(func, call.args, call.kwargs, i))}

FirstViolating == CHOOSE i \in Violating : \A j \in Violating : i <= j

(***************************************************************************)
(* C1: in every call to the wrapper the steps run in the order verify_args,*)
(* original callable, verify_result: when verify_args raised the callable  *)
(* has not been invoked, when verify_result has run (and raised or not)    *)
(* the callable has been invoked exactly once, and no call invokes the     *)
(* callable more than once.                                                *)
(***************************************************************************)
C1_CallOrder ==
    /\ call.invocations <= 1
    /\ call.error.raised \in {ParameterTypeError, IndexError} => call.invocations = 0
    /\ call.pc = "verified" => call.invocations = 0 /\ call.error = Passed
    /\ call.pc \in {"invoked", "returned"} => call.invocations = 1
    /\ call.error.raised = ReturnTypeError =>
          call.invocations = 1 /\ call.result # "" /\ call.pc = "raised"

\* verify_result raised after the callable ran once
C1_Witness ==
    /\ call.pc = "raised"
    /\ call.error.raised = ReturnTypeError
    /\ call.invocations = 1

(***************************************************************************)
(* C2: numeric widening only: a parameter or return value declared float   *)
(* accepts every int value, and one declared int rejects every float value *)
(* (ParameterTypeError naming the parameter, ReturnTypeError for results). *)
(* Stated for an enforcer built from the annotations as declared and calls *)
(* the language can bind.                                                  *)
(***************************************************************************)
C2_WideningOnly ==
    /\ (ArgsVerified /\ FromDeclared /\ Bindable(func, call.args, call.kwargs)) =>
          \A i \in 1..Len(NormalParams(func)) :
             LET p == NormalParams(func)[i]
                 v == BoundValue(func, call.args, call.kwargs, i)
             IN  ~Exempt(i) =>
                   /\ (p.ann = "float" /\ PyType(v) = "int") =>
                         ~(call.error.raised = ParameterTypeError /\ call.error.name = p.name)
                   /\ (p.ann = "int" /\ PyType(v) = "float") =>
                         /\ call.error.raised = ParameterTypeError
                         /\ i = FirstViolating => call.error.name = p.name
    /\ (ResultVerified /\ FromDeclared) =>
          /\ (func.ret = "float" /\ PyType(call.result) = "int") => call.pc = "returned"
          /\ (func.ret = "int" /\ PyType(call.result) = "float") =>
                call.error.raised = ReturnTypeError

(***************************************************************************)
(* C3: verify_args validates normal parameters in declaration order: when  *)
(* two or more normal parameters are bound to violating values (supplied   *)
(* positionally, by keyword or by default), the ParameterTypeError raised  *)
(* names the violating parameter that comes first in declaration order,    *)
(* whatever the declared types.                                            *)
(***************************************************************************)
C3_DeclarationOrder ==
    (/\ ArgsVerified /\ FromDeclared
     /\ Bindable(func, call.args, call.kwargs)
     /\ Cardinality(Violating) >= 2) =>
        /\ call.error.raised = ParameterTypeError
        /\ call.error.name = NormalParams(func)[FirstViolating].name

(***************************************************************************)
(* C4: when a normal parameter receives a value both positionally and      *)
(* through a same-named keyword in one verify_args call, the positional    *)
(* value is the one validated: the verdict is the verdict of the same call *)
(* without the redundant keyword.  Stated for callables without a variadic *)
(* keyword parameter, where every keyword entry is read as a normal one.   *)
(***************************************************************************)
C4_PositionalWins ==
    (ArgsVerified /\ FromDeclared /\ ~HasKind(func, VAR_KEYWORD)) =>
        \A i \in 1..Len(NormalParams(func)) :
            (/\ ~Exempt(i)
             /\ i <= Len(call.args)
             /\ Has(call.kwargs, NormalParams(func)[i].name)) =>
                call.error = verify_args(enforcer, call.args,
                                Pop(call.kwargs, NormalParams(func)[i].name))

(***************************************************************************)
(* C5: an annotated normal parameter that the call supplies neither        *)
(* positionally nor by keyword is validated against its recorded default   *)
(* (a violating default raises ParameterTypeError naming the parameter and *)
(* reporting the default, when no earlier parameter is violated); without  *)
(* a default it is skipped without error; and a supplied value always      *)
(* replaces the default, so that an error naming a supplied parameter      *)
(* reports the supplied value, never the default.                          *)
(***************************************************************************)
C5_Defaults ==
    (ArgsVerified /\ FromDeclared /\ NoDuplicates(func, call.args, call.kwargs)) =>
        \A i \in 1..Len(NormalParams(func)) :
            LET p == NormalParams(func)[i]
                named == call.error.raised = ParameterTypeError
                            /\ call.error.name = p.name
            IN  (~Exempt(i) /\ p.ann # NoAnn) =>
                  IF Supplied(func, call.args, call.kwargs, i)
                  THEN named => call.error.value =
                                    BoundValue(func, call.args, call.kwargs, i)
                  ELSE IF p.default = Empty
                  THEN ~named
                  ELSE Violates(p.ann, p.default) =>
                         /\ call.error.raised # ""
                         /\ i = FirstViolating =>
                               named /\ call.error.value = p.default

(***************************************************************************)
(* C6: constructing the Enforcer validates every declared default against  *)
(* its parameter's declared type, and fails with ParameterTypeError when a *)
(* default violates it.                                                    *)
(***************************************************************************)
\* Some non-exempt normal parameter declares a default that violates its
\* declared type
InvalidDefault ==
    \E i \in 1..Len(NormalParams(func)) :
        /\ ~Exempt(i)
        /\ NormalParams(func)[i].default # Empty
        /\ Violates(NormalParams(func)[i].ann, NormalParams(func)[i].default)

ModelName(name) == IF name = "self" THEN enforcer._self ELSE name

Unannotated ==
    LET idx == SelectSeq([i \in 1..Len(func.params) |-> i],
                   LAMBDA i : func.params[i].ann = NoAnn
                              /\ ~(construction.ignore_self /\ i = 1))
    IN  [k \in 1..Len(idx) |-> func.params[idx[k]].name]

NoOtherSelf ==
    \A i \in 1..Len(func.params) :
        func.params[i].name = "self" => (construction.ignore_self /\ i = 1)

C7_ListsEveryUnannotated ==
    (FromDeclared /\ NoOtherSelf) =>
        IF construction.require_args
        THEN /\ construction.raised = UnspecifiedParameterTypeError
                    <=> Unannotated # <<>>
             /\ construction.raised = UnspecifiedParameterTypeError
                    => construction.names = Unannotated
        ELSE construction.raised # UnspecifiedParameterTypeError

(***************************************************************************)
(* C8: construction raises UnspecifiedReturnTypeError if and only if       *)
(* require_return=True and the callable has no return annotation; a        *)
(* callable that declares a return annotation is never rejected for a      *)
(* missing return hint.  The first half is stated for constructions that   *)
(* raise nothing else.                                                     *)
(***************************************************************************)
C8_ReturnHintRequired ==
    construction.done =>
        /\ func.ret # NoAnn => construction.raised # UnspecifiedReturnTypeError
        /\ construction.raised \in {"", UnspecifiedReturnTypeError} =>
              (construction.raised = UnspecifiedReturnTypeError
                  <=> (construction.require_return /\ func.ret = NoAnn))

(***************************************************************************)
(* C9: a constructor method (__init__) without a return annotation is      *)
(* exempt from the require_return check: with require_args, require_return *)
(* and ignore_self all set and every parameter but self annotated, the     *)
(* model is built and UnspecifiedReturnTypeError is not raised.            *)
(***************************************************************************)
C9_InitExempt ==
    (/\ FromDeclared
     /\ func.name = "__init__" /\ func.ret = NoAnn
     /\ construction.require_args /\ construction.require_return
     /\ construction.ignore_self
     /\ Unannotated = <<>>) =>
        /\ construction.raised # UnspecifiedReturnTypeError
        /\ enforcer.built

(***************************************************************************)
(* C10: with ignore_self=True the first declared parameter, whatever its   *)
(* name and whether or not it is annotated, is never validated by          *)
(* verify_args for any supplied value and is never counted as a missing    *)
(* annotation under require_args, while every other declared parameter is  *)
(* still validated against its own annotation: a call the language can     *)
(* bind raises ParameterTypeError when one of the other parameters is      *)
(* bound to a violating value and raises nothing when none is.             *)
(***************************************************************************)
\* The declared annotation of the variadic parameter of the given kind
VariadicAnn(f, kind) ==
    IF HasKind(f, kind)
    THEN f.params[CHOOSE i \in 1..Len(f.params) : f.params[i].kind = kind].ann
    ELSE NoAnn

\* The values the language collects in *args and in **kwargs
VariadicPositional(f, args) == SubSeq(args, Len(NormalParams(f)) + 1, Len(args))

VariadicKeyword(f, kwargs) ==
    SelectSeq(kwargs, LAMBDA e :
        \A i \in 1..Len(NormalParams(f)) : NormalParams(f)[i].name # e[1])

\* Some validated parameter of the call in progress is bound to a value
\* that violates its annotation
SomeViolation ==
    \/ Violating # {}
    \/ \E j \in 1..Len(VariadicPositional(func, call.args)) :
          Violates(VariadicAnn(func, VAR_POSITIONAL),
                   VariadicPositional(func, call.args)[j])
    \/ \E j \in 1..Len(VariadicKeyword(func, call.kwargs)) :
          Violates(VariadicAnn(func, VAR_KEYWORD),
                   VariadicKeyword(func, call.kwargs)[j][2])

C10_SelfExempt ==
    (FromDeclared /\ construction.ignore_self) =>
        /\ (construction.require_args /\ Unannotated = <<>>) =>
              construction.raised # UnspecifiedParameterTypeError
        /\ ArgsVerified =>
              /\ ~(call.error.raised = ParameterTypeError
                     /\ call.error.name = func.params[1].name)
              /\ Len(call.args) >= 1 =>
                    \A v \in Values :
                        verify_args(enforcer, <<v>> \o Tail(call.args),
                                    call.kwargs).raised = call.error.raised
              /\ Bindable(func, call.args, call.kwargs) =>
                    IF SomeViolation
                    THEN call.error.raised = ParameterTypeError
                    ELSE call.error = Passed

(***************************************************************************)
(* C11: for a callable with zero annotations, with or without self         *)
(* exemption, verify_args raises nothing for any call the language can     *)
(* bind and verify_result raises nothing for any value.                    *)
(***************************************************************************)
ZeroAnnotations == DeclaredAnnotations(func) = <<>>

C11_ZeroAnnotationsAlwaysPass ==
    (FromDeclared /\ ZeroAnnotations) =>
        /\ (ArgsVerified /\ Bindable(func, call.args, call.kwargs)) =>
              call.error = Passed
        /\ ResultVerified => call.pc = "returned"

(***************************************************************************)
(* C12: every ReturnTypeError raised by verify_result, on the type         *)
(* mismatch path and on the array dtype cast path, carries in return_value *)
(* the value passed to verify_result, which is the value the wrapped       *)
(* callable returned.                                                      *)
(***************************************************************************)
C12_ReturnValueAttached ==
    call.error.raised = ReturnTypeError =>
        /\ call.result \in Values
        /\ call.error.value = call.result
        /\ verify_result(enforcer, call.result).value = call.result

\* The dtype cast path raised, and the error carries the returned array
C12_Witness ==
    /\ call.pc = "raised"
    /\ call.error.raised = ReturnTypeError
    /\ call.error.cast
    /\ call.error.value = "ndarray_float64"
    /\ call.result = "ndarray_float64"

(***************************************************************************)
(* C13: for a callable with an annotated variadic-positional parameter,    *)
(* with or without an exempted leading self parameter, verify_args         *)
(* validates each normal positional value against its own parameter and    *)
(* exactly the values beyond the normal positional parameters against the  *)
(* variadic annotation: the first trailing value that violates it raises   *)
(* ParameterTypeError naming the variadic parameter and that value, and a  *)
(* call without any violation raises nothing.  Stated for calls that pass  *)
(* no keywords.                                                            *)
(***************************************************************************)
\* The declared name of the variadic parameter of the given kind
VariadicName(f, kind) ==
    f.params[CHOOSE i \in 1..Len(f.params) : f.params[i].kind = kind].name

\* The positions in the trailing positional values that violate the
\* variadic-positional annotation
ViolatingTrailing ==
    {j \in 1..Len(VariadicPositional(func, call.args)) :
        Violates(VariadicAnn(func, VAR_POSITIONAL),
                 VariadicPositional(func, call.args)[j])}

C13_VariadicPositional ==
    (/\ FromDeclared /\ ArgsVerified
     /\ VariadicAnn(func, VAR_POSITIONAL) # NoAnn
     /\ call.kwargs = <<>>
     /\ Bindable(func, call.args, call.kwargs)) =>
        IF Violating # {}
        THEN /\ call.error.raised = ParameterTypeError
             /\ call.error.name = NormalParams(func)[FirstViolating].name
        ELSE IF ViolatingTrailing # {}
        THEN call.error =
               Raise(ParameterTypeError, VariadicName(func, VAR_POSITIONAL),
                     VariadicPositional(func, call.args)[
                         CHOOSE j \in ViolatingTrailing :
                             \A k \in ViolatingTrailing : j <= k],
                     FALSE)
        ELSE call.error = Passed

(***************************************************************************)
(* C14: for a callable with an annotated variadic-keyword parameter,       *)
(* verify_args validates every keyword entry whose name is not a declared  *)
(* normal parameter against the variadic-keyword annotation, and every     *)
(* keyword entry whose name is a declared normal parameter against that    *)
(* parameter's own annotation and never against the variadic one, for any  *)
(* number of keyword entries and however many normal parameters were       *)
(* passed positionally.  Stated for callables without a variadic           *)
(* positional parameter and calls the language can bind.                   *)
(***************************************************************************)
\* The positions in the extra keyword entries that violate the
\* variadic-keyword annotation
ViolatingExtra ==
    {j \in 1..Len(VariadicKeyword(func, call.kwargs)) :
        Violates(VariadicAnn(func, VAR_KEYWORD),
                 VariadicKeyword(func, call.kwargs)[j][2])}

C14_VariadicKeyword ==
    (/\ FromDeclared /\ ArgsVerified
     /\ VariadicAnn(func, VAR_KEYWORD) # NoAnn
     /\ ~HasKind(func, VAR_POSITIONAL)
     /\ Bindable(func, call.args, call.kwargs)) =>
        IF Violating # {}
        THEN /\ call.error.raised = ParameterTypeError
             /\ call.error.name = NormalParams(func)[FirstViolating].name
        ELSE IF ViolatingExtra # {}
        THEN call.error =
               Raise(ParameterTypeError, VariadicName(func, VAR_KEYWORD),
                     VariadicKeyword(func, call.kwargs)[
                         CHOOSE j \in ViolatingExtra :
                             \A k \in ViolatingExtra : j <= k][2],
                     FALSE)
        ELSE call.error = Passed

C16_OnlyParameterTypeError ==
    (ArgsVerified /\ FromDeclared /\ ~HasKind(func, VAR_POSITIONAL)) =>
        call.error.raised \in {"", ParameterTypeError}

(***************************************************************************)
(* C17: when several threads call the same decorated function at once,     *)
(* their first calls racing on the lazy build included, the model is built *)
(* at most once, no thread finds the enforcer set while decorated_func is  *)
(* not (the AttributeError of __call__), every call is validated against   *)
(* the model built from the annotations as declared, and no call fails for *)
(* a reason other than a validation error.                                 *)
(***************************************************************************)
\* The model a single construction from the declared annotations yields
DeclaredModel ==
    EnforcerInit(func, DeclaredAnnotations(func), decorator.require_args,
                 decorator.require_return, FALSE,
                 CHOOSE alias \in Aliases : TRUE).enforcer

\* Stated for functions whose declared annotations satisfy the decorator,
\* so that a lone first call builds the model
C17_LazyBuildSafe ==
    DeclaredModel.built =>
        /\ decorator.builds <= 1
        /\ \A t \in DOMAIN threads :
              /\ threads[t].error.raised \in
                    {"", ParameterTypeError, ReturnTypeError}
              /\ threads[t].verified_by.built =>
                    threads[t].verified_by = DeclaredModel

(***************************************************************************)
(* C18: a parameter annotated with a generic list-of-T type is enforced    *)
(* element-wise by the Enforcer: the annotation is expanded through the    *)
(* translator when the model is built, so that verify_args accepts a list  *)
(* whose elements all satisfy T and raises ParameterTypeError for a list   *)
(* holding a violating element, for a non-list value and for a tuple.      *)
(***************************************************************************)
C18_ListEnforcedElementWise ==
    (/\ FromDeclared /\ enforcer.built /\ ~construction.ignore_self
     /\ func.params[1].ann = "List_int") =>
        /\ enforcer.args[1].type = typing_to_trait("3.6", "List_int")
        /\ (ArgsVerified /\ Len(call.args) = 1) =>
              IF call.args[1] = "list_int"
              THEN call.error = Passed
              ELSE /\ call.error.raised = ParameterTypeError
                   /\ call.error.name = "a"

(***************************************************************************)
(* C19: for a normal parameter or return value declared as an array with a *)
(* dtype and/or shape, an array is accepted if and only if its element     *)
(* type can be cast to the declared dtype under the safe casting rule and  *)
(* every declared non-wildcard dimension equals the array's extent; an     *)
(* unsafe cast raises the dedicated "could not be cast" error              *)
(* (ParameterTypeError for an argument, ReturnTypeError for a result); and *)
(* a declaration without dtype puts no constraint on the element type.     *)
(***************************************************************************)
\* The array's element type satisfies the declaration
DtypeAccepted(t, v) ==
    ArrayDtype(t) = None \/ SafeCast(NdarrayDtype(v), ArrayDtype(t))

ShapeAccepted(t, v) == ShapeMatches(ArrayShape(t), NdarrayShape(v))

C19_ArrayDtypeAndShape ==
    FromDeclared =>
        /\ (/\ ArgsVerified /\ ~construction.ignore_self
            /\ IsArray(func.params[1].ann)
            /\ Len(call.args) = 1 /\ call.kwargs = <<>>
            /\ IsNdarray(call.args[1])) =>
              LET t == func.params[1].ann
                  v == call.args[1]
              IN  /\ call.error = Passed <=>
                        (DtypeAccepted(t, v) /\ ShapeAccepted(t, v))
                  /\ ~DtypeAccepted(t, v) =>
                        call.error = Raise(ParameterTypeError, "a", v, TRUE)
                  /\ call.error.cast => ~DtypeAccepted(t, v)
        /\ (ResultVerified /\ IsArray(func.ret) /\ IsNdarray(call.result)) =>
              LET t == func.ret
                  v == call.result
              IN  /\ call.pc = "returned" <=>
                        (DtypeAccepted(t, v) /\ ShapeAccepted(t, v))
                  /\ ~DtypeAccepted(t, v) =>
                        call.error = Raise(ReturnTypeError, "return", v, TRUE)
                  /\ call.error.cast => ~DtypeAccepted(t, v)

NonExempt == {i \in 1..Len(NormalParams(func)) : ~Exempt(i)}

\* Some non-exempt normal parameter is named "self"
SelfNamed == \E i \in NonExempt : NormalParams(func)[i].name = "self"

\* The names of the non-exempt normal parameters in declaration order, as
\* the model calls them
DeclaredOrder ==
    LET idx == SelectSeq([i \in 1..Len(NormalParams(func)) |-> i],
                         LAMBDA i : ~Exempt(i))
    IN  [k \in 1..Len(idx) |-> ModelName(NormalParams(func)[idx[k]].name)]

C21_SelfNamedParameter ==
    (/\ FromDeclared /\ enforcer.built /\ SelfNamed
     /\ ~HasKind(func, VAR_POSITIONAL) /\ ~HasKind(func, VAR_KEYWORD)) =>
        /\ [i \in 1..Len(enforcer.args) |-> enforcer.args[i].name] = DeclaredOrder
        /\ (ArgsVerified /\ Bindable(func, call.args, call.kwargs)) =>
              IF Violating # {}
              THEN call.error.raised = ParameterTypeError
              ELSE call.error = Passed

(***************************************************************************)
(* C22: in every built model all parameter names are pairwise distinct: in *)
(* particular the alias generated for a normal parameter named "self"      *)
(* never equals the name of another declared parameter of the callable,    *)
(* for every alias the generator can produce, and so the model holds one   *)
(* entry for every non-exempt normal parameter.                            *)
(***************************************************************************)
C22_AliasUnique ==
    (FromDeclared /\ enforcer.built) =>
        /\ \A i, j \in 1..Len(enforcer.args) :
              i # j => enforcer.args[i].name # enforcer.args[j].name
        /\ enforcer._self # None =>
              \A i \in 1..Len(func.params) : func.params[i].name # enforcer._self
        /\ Len(enforcer.args) = Cardinality(NonExempt)

\* typ is made of list forms and plain types only
RECURSIVE ListForm(_)
ListForm(typ) ==
    \/ typ \in {"int", "float", "str", "List"}
    \/ /\ HasOrigin(typ) /\ Generic(typ) = "List" /\ TypeArgs(typ) # <<>>
       /\ ListForm(TypeArgs(typ)[1])

\* value is what the annotation typ describes
RECURSIVE Satisfies(_, _)
Satisfies(typ, value) ==
    IF ~HasOrigin(typ) THEN Validate(typ, value)
    ELSE /\ PyType(value) = "list"
         /\ TypeArgs(typ) # <<>> =>
               \A i \in 1..Len(Items(value)) :
                   Satisfies(TypeArgs(typ)[1], Items(value)[i])

\* The annotation being translated is a generic list form over list forms
\* and plain types, and the translator has returned or raised
ListTranslated ==
    /\ translation.pc \in {"translated", "validated", "raised"}
    /\ HasOrigin(translation.arg_type)
    /\ ListForm(translation.arg_type)

(***************************************************************************)
(* C23: the validator produced by translating a generic list-of-T          *)
(* annotation accepts a value if and only if the value is a list and every *)
(* element satisfies the translation of T, recursively for nested          *)
(* list-of-list annotations; translating the bare generic list form yields *)
(* a validator that accepts any list and rejects non-lists.                *)
(***************************************************************************)
C23_ListValidator ==
    ListTranslated =>
        /\ translation.pc = "validated" =>
              translation.accepted =
                  Satisfies(translation.arg_type, translation.value)
        /\ translation.arg_type = "List" =>
              /\ translation.pc # "raised"
              /\ translation.trait = TraitsList

\* Every generic form in typ, typ included, is a list or a tuple form
RECURSIVE Convertible(_)
Convertible(typ) ==
    \/ ~HasOrigin(typ)
    \/ /\ Generic(typ) \in {"List", "Tuple"}
       /\ \A i \in 1..Len(TypeArgs(typ)) : Convertible(TypeArgs(typ)[i])

(***************************************************************************)
(* C24: the translator is total with three disjoint outcomes: an           *)
(* annotation that is not a generic form is returned unchanged; a generic  *)
(* list or tuple form is converted to a validator; every other generic     *)
(* form, at the top level or nested inside a list or tuple argument,       *)
(* raises TypenError and never yields a validator.                         *)
(***************************************************************************)
C24_TranslatorOutcomes ==
    translation.pc \in {"translated", "validated", "raised"} =>
        IF ~HasOrigin(translation.arg_type)
        THEN /\ translation.pc # "raised"
             /\ translation.trait = translation.arg_type
        ELSE IF Convertible(translation.arg_type)
        THEN /\ translation.pc # "raised"
             /\ translation.trait \notin Annotations
        ELSE /\ translation.pc = "raised"
             /\ translation.trait = TypenError

\* Both methods are past verify_args for the call and neither has reached
\* the callable
BothVerified ==
    \A p \in {"above", "below"} :
        /\ methods[p].call.pc \in {"verified", "raised"}
        /\ methods[p].call.invocations = 0

\* Both methods are past verify_result for the same returned value
BothResultVerified ==
    /\ \A p \in {"above", "below"} :
          /\ methods[p].call.pc \in {"returned", "raised"}
          /\ methods[p].call.invocations = 1
          /\ methods[p].call.result # ""
    /\ methods.above.call.result = methods.below.call.result

\* The call made on the two methods is one the language can bind
RequestBindable ==
    /\ methods.request.made
    /\ Bindable(func,
                Receive(methods.desc, methods.request.via, methods.request.args),
                methods.request.kwargs)

(***************************************************************************)
(* C25: for a class method or static method, enforce_type_hints applied    *)
(* above classmethod/staticmethod and applied below it give the same       *)
(* observable behaviour for every signature and every call, through the    *)
(* class and through an instance: the same calls are accepted and rejected *)
(* calls raise the same error naming the same parameter or return value;   *)
(* for static methods no parameter is exempted and for class methods the   *)
(* receiver is not validated as a declared parameter.                      *)
(***************************************************************************)
C25_DecoratorOrder ==
    RequestBindable =>
        /\ BothVerified => methods.above.call.error = methods.below.call.error
        /\ BothResultVerified =>
              methods.above.call.error = methods.below.call.error
        /\ methods.desc = staticmethod =>
              \A p \in {"above", "below"} :
                  methods[p].enforcer.built =>
                      methods[p].enforcer.ignored_self_name = None
        /\ (methods.desc = classmethod /\ BothVerified) =>
              \A p \in {"above", "below"} :
                  methods[p].call.error.name # "cls"

\* What Enforcer(func, ...) does on the annotations the def statement built,
\* with the decorator's flags: the outcome of the first call's construction
FirstConstruction ==
    EnforcerInit(func, DeclaredAnnotations(func), decorator.require_args,
                 decorator.require_return, FALSE, "qzjxkvwpmhgtbyd")

\* The declared signature lacks an annotation the decorator requires
LacksRequired ==
    \/ /\ decorator.require_args
       /\ \E i \in 1..Len(func.params) : func.params[i].ann = NoAnn
    \/ /\ decorator.require_return
       /\ func.ret = NoAnn

\* The error that corresponds to the missing annotation
Corresponding ==
    IF /\ decorator.require_args
       /\ \E i \in 1..Len(func.params) : func.params[i].ann = NoAnn
    THEN UnspecifiedParameterTypeError
    ELSE UnspecifiedReturnTypeError

(***************************************************************************)
(* C26: for a plain function decorated with a strict decorator and lacking *)
(* a required parameter or return annotation, every call to the decorated  *)
(* function, the first and each later one, raises the corresponding        *)
(* UnspecifiedParameterTypeError or UnspecifiedReturnTypeError with the    *)
(* same content each time, and the original function is never invoked.     *)
(***************************************************************************)
C26_StrictEveryCall ==
    LacksRequired =>
        /\ call.invocations = 0
        /\ ~enforcer.built
        /\ call.pc # "idle" =>
              /\ call.pc = "raised"
              /\ call.error.raised = Corresponding
              /\ construction.raised = FirstConstruction.raised
              /\ construction.names = FirstConstruction.names

(***************************************************************************)
(* C27: constructing an Enforcer, whether construction succeeds or raises, *)
(* leaves the callable's own annotation mapping unchanged: no annotation   *)
(* (parameter, variadic, self-like, return) is removed, renamed or added.  *)
(***************************************************************************)
C27_AnnotationsUnchanged ==
    construction.done => annotations = construction.before

\* The outcome of the latest construction is the outcome of a construction
\* with the same flags on the callable as it was declared
AsFirstConstruction ==
    \E alias \in Aliases :
        LET first == EnforcerInit(func, DeclaredAnnotations(func),
                                  construction.require_args,
                                  construction.require_return,
                                  construction.ignore_self, alias)
        IN  /\ construction.raised = first.raised
            /\ construction.names = first.names
            /\ enforcer = first.enforcer

(***************************************************************************)
(* C28: Enforcer construction is repeatable: a second Enforcer built from  *)
(* the same callable with the same flags, after any number of earlier      *)
(* constructions with any flags, gives the same construction outcome and a *)
(* model that accepts and rejects the same arguments and return values as  *)
(* the first; a declared return annotation is still enforced and a missing *)
(* parameter annotation is still reported under require_args.              *)
(***************************************************************************)
C28_ConstructionRepeatable ==
    construction.done => AsFirstConstruction

(***************************************************************************)
(* C29: verify_args never rejects a well-typed call: for every signature   *)
(* (normal, defaulted, variadic-positional, variadic-keyword parameters,   *)
(* with or without self exemption) and every call that the language can    *)
(* bind to that signature in which each supplied or defaulted value        *)
(* satisfies the annotation of the parameter it binds to, verify_args      *)
(* returns without raising any exception.                                  *)
(***************************************************************************)
C29_WellTypedAccepted ==
    (/\ FromDeclared /\ ArgsVerified
     /\ Bindable(func, call.args, call.kwargs)
     /\ ~SomeViolation) =>
        call.error = Passed

\* The keyword mappings that hold the entries of kwargs in some order
Reordered(kwargs) ==
    {[i \in 1..Len(kwargs) |-> kwargs[f[i]]] :
        f \in Permutations(1..Len(kwargs))}

(***************************************************************************)
(* C30: the verdict of verify_args is independent of the order of the      *)
(* entries in the keyword mapping: for every model and every two keyword   *)
(* mappings holding the same name-to-value pairs in different orders, with *)
(* the same positional values, both calls succeed or both raise            *)
(* ParameterTypeError.                                                     *)
(***************************************************************************)
C30_KeywordOrderIrrelevant ==
    (/\ FromDeclared /\ ArgsVerified
     /\ Bindable(func, call.args, call.kwargs)) =>
        \A other \in Reordered(call.kwargs) :
            LET raised == verify_args(enforcer, call.args, other).raised
            IN  \/ call.error.raised = "" /\ raised = ""
                \/ /\ call.error.raised = ParameterTypeError
                   /\ raised = ParameterTypeError

====
